---- MODULE Spec2Model ----
(***************************************************************************)
(* Model of runpod/endpoint/sxwl.py: the SXWL client (APIConfig,           *)
(* SXWLClient), the two controllers (InferenceService, FinetuneJob), the   *)
(* Endpoint facade and the process-wide cleanup registry.                  *)
(*                                                                         *)
(* The program is single-threaded and blocking: one operation runs at a    *)
(* time.  pc says where the thread is: "idle" between top-level calls, or  *)
(* inside one of the two polling loops, whose iterations are steps because *)
(* each one receives a fresh response from the remote platform; "returned" *)
(* is the point where a top-level call has just ended and the caller holds *)
(* its outcome.  The remote platform is the environment: every response is *)
(* drawn with \E from the bounded sets below.                              *)
(***************************************************************************)
EXTENDS Integers, Sequences, FiniteSets, TLC

VARIABLES
    api_key,              \* runpod.api_key, the process-wide credential
    rp_client,            \* Endpoint.rp_client: the APIConfig built in Endpoint.__init__
    inference,            \* the InferenceService objects: "user" is the one the caller
                          \* holds, "sync" is the local one of Endpoint.run_sync
    finetune,             \* the caller's FinetuneJob
    resources_to_cleanup, \* the module-level registry
    pc,                   \* where the thread is (see above)
    frame,                \* locals of the running polling loop
    op,                   \* the top-level operation that ran last / is running
    resp,                 \* the last HTTP response received
    result,               \* how the last top-level operation ended
    polls,                \* status requests sent by the operation so far
    sleeps,               \* time.sleep calls made by the operation so far
    sent                  \* Authorization headers of the operation's API requests

vars == <<api_key, rp_client, inference, finetune, resources_to_cleanup,
          pc, frame, op, resp, result, polls, sleeps, sent>>

(***************************************************************************)
(* Bounds of the model.                                                    *)
(***************************************************************************)
\* largest max_retries a polling loop is started with (the code's default is 60)
MaxRetries == 3
\* largest number of records in a listing the platform returns
MaxList == 2

(***************************************************************************)
(* Values.                                                                 *)
(***************************************************************************)
\* Python's None, for the optional string fields
None == "None"
\* a key that a JSON object does not have
Missing == "<missing>"

\* service names the platform hands out
ServiceNames == {"s1", "s2"}
\* job ids the platform hands out
JobIds == {"j1", "j2"}
\* chat URLs of running services
Apis == {"u1", "u2"}
\* adapter ids
AdapterIds == {"a1", "a2"}

\* values of runpod.api_key: absent, empty, a str, a bytes
NoKey == [kind |-> "none", val |-> ""]
ApiKeys == {NoKey,
            [kind |-> "str", val |-> ""],
            [kind |-> "str", val |-> "k1"],
            [kind |-> "bytes", val |-> "k2"]}

\* Python truthiness of an optional str / bytes value
Truthy(v) == v.kind # "none" /\ v.val # ""

\* f'{token}'
Format(token) == IF token.kind = "none" THEN "None" ELSE token.val

\* APIConfig.create_default, from the credential as it is now
create_default(key) ==
    LET token == IF Truthy(key) /\ key.kind = "bytes"
                 THEN [kind |-> "str", val |-> key.val]
                 ELSE key
    IN  [token |-> token,
         Authorization |-> <<"Bearer", Format(token)>>]

\* SXWLClient(config): the client is its configuration
SXWLClient(config) == config

\* the Authorization header SXWLClient._make_request sends for a client
Header(client) == client.Authorization

(***************************************************************************)
(* What the remote platform can answer.                                    *)
(***************************************************************************)
\* all sequences over S of length at most n
SeqsUpTo(S, n) == UNION {[1..k -> S] : k \in 0..n}

\* records of GET /job/inference; api is read only of a running record
StatusRecords ==
    [service_name : ServiceNames, status : {"deploying"}, api : {""}]
    \cup [service_name : ServiceNames, status : {"running"}, api : Apis]

\* response.raise_for_status() raised: any response that is not ok
TransportFailure == [ok |-> FALSE, body |-> <<>>]

\* responses of GET /job/inference
StatusResponses ==
    {TransportFailure}
    \cup {[ok |-> TRUE, body |-> l] : l \in SeqsUpTo(StatusRecords, MaxList)}

\* responses of POST /job/inference: the body carries service_name or not
DeployResponses ==
    {TransportFailure}
    \cup {[ok |-> TRUE, body |-> [service_name |-> n]] :
             n \in ServiceNames \cup {Missing}}

\* responses whose body is not looked at (DELETE, chat, health, purge)
PlainResponses == {TransportFailure, [ok |-> TRUE, body |-> <<>>]}

\* request_input / model_config dictionaries, by what their "input" key holds:
\* no such key, an empty value, a non-empty value
ModelConfigs == {[input |-> Missing], [input |-> "{}"], [input |-> "cfg"]}

\* dict.get("input") is truthy
HasInput(request_input) ==
    request_input.input # Missing /\ request_input.input # "{}"

\* Endpoint.run / run_sync: the body handed to deploy
WrapInput(request_input) ==
    IF ~HasInput(request_input)
    THEN [wrapped |-> TRUE, doc |-> request_input]
    ELSE [wrapped |-> FALSE, doc |-> request_input]

\* the body deploy is handed when called on the controller
Unwrapped(model_config) == [wrapped |-> FALSE, doc |-> model_config]

(***************************************************************************)
(* Exceptions the code raises.                                             *)
(***************************************************************************)
\* a transport failure reported as the exhaustion of the polling budget
HTTPErrorAsTimeout == "TimeoutError"

HTTPError == "requests.HTTPError"
KeyError == "KeyError"
NotReadyError == "RuntimeError: service not ready"
TimeoutError == "TimeoutError"
JobFailedError == "RuntimeError: finetune job failed"
AdapterNotFoundError == "ValueError: adapter not found"
TypeError == "TypeError"
AttributeError == "AttributeError"

Raise(exc) == [kind |-> "raise", exc |-> exc, value |-> <<>>]
Return(value) == [kind |-> "return", exc |-> "", value |-> value]
Running == [kind |-> "running", exc |-> "", value |-> <<>>]

(***************************************************************************)
(* Scans of a status listing.                                              *)
(***************************************************************************)
\* index of the first record of data named service_name, 0 if there is none:
\* where the loops "for item in ...: if item['service_name'] == ..." stop
FirstMatch(data, service_name) ==
    IF \E i \in 1..Len(data) : data[i].service_name = service_name
    THEN CHOOSE i \in 1..Len(data) :
            /\ data[i].service_name = service_name
            /\ \A j \in 1..(i - 1) : data[j].service_name # service_name
    ELSE 0

\* _wait_for_ready without its break: any running record of the service counts
ReadyScanAnyRecord(data, service_name) ==
    IF \E i \in 1..Len(data) :
          data[i].service_name = service_name /\ data[i].status = "running"
    THEN [ready |-> TRUE,
          api |-> data[CHOOSE i \in 1..Len(data) :
                          /\ data[i].service_name = service_name
                          /\ data[i].status = "running"].api]
    ELSE [ready |-> FALSE, api |-> None]

\* the scan of _wait_for_ready: ready with the api of the first record of the
\* service if that record is running; the break ends the scan otherwise
ReadyScan(data, service_name) ==
    LET i == FirstMatch(data, service_name)
    IN  IF i # 0 /\ data[i].status = "running"
        THEN [ready |-> TRUE, api |-> data[i].api]
        ELSE [ready |-> FALSE, api |-> None]

\* InferenceService.status, given the listing
StatusOf(data, service_name) ==
    LET i == FirstMatch(data, service_name)
    IN  IF i # 0 THEN data[i].status ELSE "unknown"

\* output taking the first record of the listing, whatever service it is of
OutputOfAnyService(data, service_name) ==
    IF Len(data) = 0 THEN [status |-> "unknown"]
    ELSE IF data[1].status = "running" THEN [chat_url |-> data[1].api]
    ELSE [status |-> data[1].status]

\* InferenceService.output, given the listing
OutputOf(data, service_name) ==
    LET i == FirstMatch(data, service_name)
    IN  IF i = 0 THEN [status |-> "unknown"]
        ELSE IF data[i].status = "running" THEN [chat_url |-> data[i].api]
        ELSE [status |-> data[i].status]

\* "not self.api_endpoint"
NotSet(api_endpoint) == api_endpoint = None \/ api_endpoint = ""

(***************************************************************************)
(* State.                                                                  *)
(***************************************************************************)
\* InferenceService.__init__
NewInferenceService(client) ==
    [service_name |-> None, api_endpoint |-> None, client |-> client]

\* a str return value
Str(s) == <<s>>

\* the summary record InferenceService.wait_until_complete returns
ReadySummary(c) ==
    [service_name |-> c.service_name, api_endpoint |-> c.api_endpoint,
     status |-> "running"]

\* a request as the platform sees it: method, path, Authorization header, body
Request(method, path, client, body) ==
    [method |-> method, path |-> path, Authorization |-> Header(client),
     body |-> body]

NoBody == <<>>
NoFrame == [self |-> "", attempt |-> 0, max_retries |-> 0]
NoResponse == [ok |-> TRUE, body |-> <<>>]

\* The example script's start: the key is set, then the Endpoint is built.
Init ==
    /\ api_key = [kind |-> "str", val |-> "k1"]
    /\ rp_client = SXWLClient(create_default([kind |-> "str", val |-> "k1"]))
    /\ inference = <<>>
    /\ finetune = <<>>
    /\ resources_to_cleanup = [inference_services |-> {}, finetune_jobs |-> {}]
    /\ pc = "idle"
    /\ frame = NoFrame
    /\ op = ""
    /\ resp = NoResponse
    /\ result = Running
    /\ polls = 0
    /\ sleeps = 0
    /\ sent = <<>>

\* the local controller of run_sync is gone once run_sync has ended
Dropped(inf) == [c \in DOMAIN inf \ {"sync"} |-> inf[c]]

\* the caller takes the outcome of the call that ended and goes on
Continue ==
    /\ pc = "returned"
    /\ pc' = "idle"
    /\ op' = ""
    /\ resp' = NoResponse
    /\ result' = Running
    /\ polls' = 0 /\ sleeps' = 0 /\ sent' = <<>>
    /\ frame' = NoFrame
    /\ inference' = Dropped(inference)
    /\ UNCHANGED <<api_key, rp_client, finetune, resources_to_cleanup>>

\* the caller assigns runpod.api_key (credential rotation)
SetApiKey(key) ==
    /\ pc = "idle"
    /\ key # api_key
    /\ api_key' = key
    /\ UNCHANGED <<rp_client, inference, finetune, resources_to_cleanup,
                   pc, frame, op, resp, result, polls, sleeps, sent>>

\* Endpoint.__init__
NewEndpoint ==
    /\ pc = "idle"
    /\ rp_client' = SXWLClient(create_default(api_key))
    /\ pc' = "returned"
    /\ op' = "Endpoint"
    /\ result' = Return(<<>>)
    /\ UNCHANGED <<api_key, inference, finetune, resources_to_cleanup, frame,
                   resp, polls, sleeps, sent>>

\* the caller builds a controller of its own on a client of its own
NewInference ==
    /\ pc = "idle"
    /\ inference' = [c \in {"user"} |->
                        NewInferenceService(SXWLClient(create_default(api_key)))]
    /\ pc' = "returned"
    /\ op' = "InferenceService"
    /\ result' = Return(<<>>)
    /\ UNCHANGED <<api_key, rp_client, finetune, resources_to_cleanup, frame,
                   resp, polls, sleeps, sent>>

\* deploy storing whatever the body holds under service_name before looking at it
DeployedUnchecked(c, r) ==
    IF r.ok THEN [c EXCEPT !.service_name = r.body.service_name] ELSE c

\* InferenceService.deploy on controller c with the platform answering r:
\* the controller afterwards
Deployed(c, r) ==
    IF r.ok /\ r.body.service_name # Missing
    THEN [c EXCEPT !.service_name = r.body.service_name]
    ELSE c

\* deploy keeping the latest service only in the registry
DeployRegisteredAlone(reg, r) ==
    IF r.ok /\ r.body.service_name # Missing
    THEN [reg EXCEPT !.inference_services = {r.body.service_name}]
    ELSE reg

\* InferenceService.deploy: the registry afterwards
DeployRegistered(reg, r) ==
    IF r.ok /\ r.body.service_name # Missing
    THEN [reg EXCEPT !.inference_services = @ \cup {r.body.service_name}]
    ELSE reg

\* InferenceService.deploy: how the call ends
DeployResult(r) ==
    IF ~r.ok THEN Raise(HTTPError)
    ELSE IF r.body.service_name = Missing THEN Raise(KeyError)
    ELSE Return(<<>>)

\* InferenceService.deploy called on the caller's controller
Deploy(model_config, r) ==
    /\ pc = "idle"
    /\ "user" \in DOMAIN inference
    /\ inference' = [inference EXCEPT !["user"] = Deployed(@, r)]
    /\ resources_to_cleanup' = DeployRegistered(resources_to_cleanup, r)
    /\ pc' = "returned"
    /\ op' = "deploy"
    /\ resp' = r
    /\ result' = DeployResult(r)
    /\ sent' = <<Request("POST", "/job/inference", inference["user"].client,
                         Unwrapped(model_config))>>
    /\ UNCHANGED <<api_key, rp_client, finetune, frame, polls, sleeps>>

\* Endpoint.run: a new controller on the Endpoint's client, deployed; the
\* caller gets it only if deploy returns
Run(request_input, r) ==
    /\ pc = "idle"
    /\ inference' =
          IF DeployResult(r).kind = "return"
          THEN [c \in {"user"} |-> Deployed(NewInferenceService(rp_client), r)]
          ELSE inference
    /\ resources_to_cleanup' = DeployRegistered(resources_to_cleanup, r)
    /\ pc' = "returned"
    /\ op' = "run"
    /\ resp' = r
    /\ result' = DeployResult(r)
    /\ sent' = <<Request("POST", "/job/inference", rp_client,
                         WrapInput(request_input))>>
    /\ UNCHANGED <<api_key, rp_client, finetune, frame, polls, sleeps>>


\* Endpoint.run_sync up to the first poll: a fresh configuration, a fresh
\* controller, deploy, then InferenceService.wait_until_complete
RunSync(request_input, r) ==
    /\ pc = "idle"
    /\ LET client == SXWLClient(create_default(api_key))
           started == DeployResult(r).kind = "return"
       IN  /\ inference' =
                 IF started
                 THEN [c \in DOMAIN inference \cup {"sync"} |->
                          IF c = "sync"
                          THEN Deployed(NewInferenceService(client), r)
                          ELSE inference[c]]
                 ELSE inference
           /\ pc' = IF started THEN "wait_for_ready" ELSE "returned"
           /\ frame' = IF started
                       THEN [self |-> "sync", attempt |-> 0,
                             max_retries |-> MaxRetries]
                       ELSE frame
           /\ result' = IF started THEN Running ELSE DeployResult(r)
           /\ sent' = <<Request("POST", "/job/inference", client,
                                WrapInput(request_input))>>
    /\ resources_to_cleanup' = DeployRegistered(resources_to_cleanup, r)
    /\ op' = "run_sync"
    /\ resp' = r
    /\ UNCHANGED <<api_key, rp_client, finetune, polls, sleeps>>

\* InferenceService.wait_until_complete on the caller's controller; the
\* default max_retries of _wait_for_ready is scaled to MaxRetries
WaitUntilComplete ==
    /\ pc = "idle"
    /\ "user" \in DOMAIN inference
    /\ pc' = "wait_for_ready"
    /\ frame' = [self |-> "user", attempt |-> 0, max_retries |-> MaxRetries]
    /\ op' = "wait_until_complete"
    /\ UNCHANGED <<api_key, rp_client, inference, finetune, resources_to_cleanup,
                   resp, result, polls, sleeps, sent>>

\* InferenceService._wait_for_ready(max_retries) called on its own
WaitForReady(max_retries) ==
    /\ pc = "idle"
    /\ "user" \in DOMAIN inference
    /\ pc' = "wait_for_ready"
    /\ frame' = [self |-> "user", attempt |-> 0, max_retries |-> max_retries]
    /\ op' = "_wait_for_ready"
    /\ UNCHANGED <<api_key, rp_client, inference, finetune, resources_to_cleanup,
                   resp, result, polls, sleeps, sent>>

\* the loop bound off by one: range(max_retries + 1)
ExhaustedLate(f) == f.attempt > f.max_retries

\* the loop as a do-while: the first iteration is made whatever max_retries is
ExhaustedAfterFirst(f) == f.attempt >= f.max_retries /\ f.attempt > 0

\* "for attempt in range(max_retries)" has no iteration left
Exhausted(f) == f.attempt >= f.max_retries

\* wait_until_complete returning nothing, as _wait_for_ready does
ReadyReturnNothing(o, c) == Return(<<>>)

\* what the call that runs _wait_for_ready returns once the loop returned
ReadyReturn(o, c) ==
    IF o = "_wait_for_ready" THEN Return(<<>>) ELSE Return(ReadySummary(c))

\* one iteration of the loop of _wait_for_ready up to its sleep: the status
\* request and the scan of the answer
PollReady(r) ==
    /\ pc = "wait_for_ready"
    /\ ~Exhausted(frame)
    /\ LET self == frame.self
           me == inference[self]
           scan == ReadyScan(r.body, me.service_name)
           ready == [me EXCEPT !.api_endpoint = scan.api]
       IN  /\ polls' = polls + 1
           /\ sent' = Append(sent, Request("GET", "/job/inference", me.client, NoBody))
           /\ resp' = r
           /\ IF ~r.ok
              THEN /\ result' = Raise(HTTPError)
                   /\ pc' = "returned"
                   /\ frame' = frame
                   /\ inference' = inference
              ELSE IF scan.ready
              THEN /\ result' = ReadyReturn(op, ready)
                   /\ pc' = "returned"
                   /\ frame' = frame
                   /\ inference' = [inference EXCEPT ![self] = ready]
              ELSE /\ result' = Running
                   /\ pc' = "sleep_ready"
                   /\ frame' = frame
                   /\ inference' = inference
    /\ UNCHANGED <<api_key, rp_client, finetune, resources_to_cleanup, op, sleeps>>

\* time.sleep(retry_interval) at the end of an iteration of _wait_for_ready
SleepReady ==
    /\ pc = "sleep_ready"
    /\ sleeps' = sleeps + 1
    /\ frame' = [frame EXCEPT !.attempt = @ + 1]
    /\ pc' = "wait_for_ready"
    /\ resp' = NoResponse
    /\ UNCHANGED <<api_key, rp_client, inference, finetune, resources_to_cleanup,
                   op, result, polls, sent>>

\* the loop of _wait_for_ready ran out of attempts
TimeoutReady ==
    /\ pc = "wait_for_ready"
    /\ Exhausted(frame)
    /\ result' = Raise(TimeoutError)
    /\ pc' = "returned"
    /\ UNCHANGED <<api_key, rp_client, inference, finetune, resources_to_cleanup,
                   op, frame, resp, polls, sleeps, sent>>

\* InferenceService.status
Status(r) ==
    /\ pc = "idle"
    /\ "user" \in DOMAIN inference
    /\ pc' = "returned"
    /\ op' = "status"
    /\ resp' = r
    /\ result' = IF ~r.ok THEN Raise(HTTPError)
                 ELSE Return(Str(StatusOf(r.body, inference["user"].service_name)))
    /\ polls' = 1
    /\ sent' = <<Request("GET", "/job/inference", inference["user"].client, NoBody)>>
    /\ UNCHANGED <<api_key, rp_client, inference, finetune, resources_to_cleanup,
                   frame, sleeps>>

\* output keeping the chat URL it found as the controller's api_endpoint
OutputCaching(r) ==
    /\ pc = "idle"
    /\ "user" \in DOMAIN inference
    /\ pc' = "returned"
    /\ op' = "output"
    /\ resp' = r
    /\ result' = IF ~r.ok THEN Raise(HTTPError)
                 ELSE Return(OutputOf(r.body, inference["user"].service_name))
    /\ inference' =
          IF r.ok /\ ReadyScan(r.body, inference["user"].service_name).ready
          THEN [inference EXCEPT !["user"].api_endpoint =
                   ReadyScan(r.body, inference["user"].service_name).api]
          ELSE inference
    /\ polls' = 1
    /\ sent' = <<Request("GET", "/job/inference", inference["user"].client, NoBody)>>
    /\ UNCHANGED <<api_key, rp_client, finetune, resources_to_cleanup,
                   frame, sleeps>>

\* InferenceService.output
Output(r) ==
    /\ pc = "idle"
    /\ "user" \in DOMAIN inference
    /\ pc' = "returned"
    /\ op' = "output"
    /\ resp' = r
    /\ result' = IF ~r.ok THEN Raise(HTTPError)
                 ELSE Return(OutputOf(r.body, inference["user"].service_name))
    /\ polls' = 1
    /\ sent' = <<Request("GET", "/job/inference", inference["user"].client, NoBody)>>
    /\ UNCHANGED <<api_key, rp_client, inference, finetune, resources_to_cleanup,
                   frame, sleeps>>

\* the requests InferenceService.chat sends: none unless api_endpoint is set
ChatRequests(c) ==
    IF NotSet(c.api_endpoint) THEN <<>>
    ELSE <<[method |-> "POST", path |-> c.api_endpoint, Authorization |-> <<>>,
            body |-> [model |-> "/mnt/models"]]>>

\* chat without its check of api_endpoint
ChatResultUnguarded(c, r) ==
    IF ~r.ok THEN Raise(HTTPError) ELSE Return([reply |-> "json"])

\* InferenceService.chat: how the call ends when the chat server answers r
ChatResult(c, r) ==
    IF NotSet(c.api_endpoint) THEN Raise(NotReadyError)
    ELSE IF ~r.ok THEN Raise(HTTPError)
    ELSE Return([reply |-> "json"])

\* InferenceService.chat
Chat(r) ==
    /\ pc = "idle"
    /\ "user" \in DOMAIN inference
    /\ pc' = "returned"
    /\ op' = "chat"
    /\ sent' = ChatRequests(inference["user"])
    /\ resp' = IF sent' = <<>> THEN NoResponse ELSE r
    /\ result' = ChatResult(inference["user"], r)
    /\ UNCHANGED <<api_key, rp_client, inference, finetune, resources_to_cleanup,
                   frame, polls, sleeps>>

\* delete_inference_service discarding the name whatever the platform answers
InferenceDeletedAlways(reg, service_name, r) ==
    [reg EXCEPT !.inference_services = @ \ {service_name}]

\* SXWLClient.delete_inference_service: the registry afterwards
InferenceDeleted(reg, service_name, r) ==
    IF r.ok
    THEN [reg EXCEPT !.inference_services = @ \ {service_name}]
    ELSE reg

\* SXWLClient.delete_inference_service on the Endpoint's client
DeleteInference(service_name, r) ==
    /\ pc = "idle"
    /\ resources_to_cleanup' = InferenceDeleted(resources_to_cleanup, service_name, r)
    /\ pc' = "returned"
    /\ op' = "delete_inference_service"
    /\ resp' = r
    /\ result' = Return(<<>>)
    /\ sent' = <<Request("DELETE", "/job/inference", rp_client,
                         [service_name |-> service_name])>>
    /\ UNCHANGED <<api_key, rp_client, inference, finetune, frame, polls, sleeps>>

\* Endpoint.health / Endpoint.purge_queue: the payload, or the error payload
BestEffort(r) ==
    IF r.ok THEN Return([payload |-> "json"])
    ELSE Return([status |-> "error", message |-> HTTPError])

\* Endpoint.health
Health(r) ==
    /\ pc = "idle"
    /\ pc' = "returned"
    /\ op' = "health"
    /\ resp' = r
    /\ result' = BestEffort(r)
    /\ sent' = <<Request("GET", "/job/health",
                         SXWLClient(create_default(api_key)), NoBody)>>
    /\ UNCHANGED <<api_key, rp_client, inference, finetune, resources_to_cleanup,
                   frame, polls, sleeps>>

\* Endpoint.purge_queue
PurgeQueue(r) ==
    /\ pc = "idle"
    /\ pc' = "returned"
    /\ op' = "purge_queue"
    /\ resp' = r
    /\ result' = BestEffort(r)
    /\ sent' = <<Request("POST", "/job/purge-queue",
                         SXWLClient(create_default(api_key)), NoBody)>>
    /\ UNCHANGED <<api_key, rp_client, inference, finetune, resources_to_cleanup,
                   frame, polls, sleeps>>

(***************************************************************************)
(* The fine-tune job controller.                                           *)
(***************************************************************************)
\* statuses of a training job
JobStatuses == {"running", "succeeded", "failed", "error"}

\* records of GET /job/training
JobRecords == [jobName : JobIds, status : JobStatuses]

\* responses of GET /job/training
TrainingResponses ==
    {TransportFailure}
    \cup {[ok |-> TRUE, body |-> l] : l \in SeqsUpTo(JobRecords, MaxList)}

\* responses of POST /job/finetune: the body carries job_id or not
StartResponses ==
    {TransportFailure}
    \cup {[ok |-> TRUE, body |-> [job_id |-> n]] : n \in JobIds \cup {Missing}}

\* the "meta" of an adapter: the key is absent, its value is null, a string that
\* is not JSON, JSON that is not an object, or a JSON object with or without a
\* finetune_id
Metas ==
    {[kind |-> k, finetune_id |-> Missing] :
        k \in {"absent", "null", "unparsable", "nonobject"}}
    \cup {[kind |-> "object", finetune_id |-> f] : f \in JobIds \cup {Missing}}

\* records of GET /resource/adapters
Adapters == [id : AdapterIds, meta : Metas]

\* responses of GET /resource/adapters
AdapterResponses ==
    {TransportFailure}
    \cup {[ok |-> TRUE, body |-> l] : l \in SeqsUpTo(Adapters, MaxList)}

\* FinetuneJob.__init__
NewFinetuneJob(client) ==
    [job_id |-> None, adapter_id |-> None, client |-> client]

\* the summary record FinetuneJob.wait_until_complete returns
CompletionSummary(j) ==
    [job_id |-> j.job_id, adapter_id |-> j.adapter_id, status |-> "succeeded"]

\* index of the first record of content named job_id, 0 if there is none
FirstJob(content, job_id) ==
    IF \E i \in 1..Len(content) : content[i].jobName = job_id
    THEN CHOOSE i \in 1..Len(content) :
            /\ content[i].jobName = job_id
            /\ \A j \in 1..(i - 1) : content[j].jobName # job_id
    ELSE 0

\* _wait_for_completion without its break: any succeeded record of the job counts
CompletionScanAnyRecord(content, job_id) ==
    IF \E i \in 1..Len(content) :
          content[i].jobName = job_id /\ content[i].status = "succeeded"
    THEN "succeeded"
    ELSE IF \E i \in 1..Len(content) :
          content[i].jobName = job_id /\ content[i].status \in {"failed", "error"}
    THEN "failed"
    ELSE "pending"

\* _wait_for_completion testing status == 'failed' only
CompletionScanFailedOnly(content, job_id) ==
    LET i == FirstJob(content, job_id)
    IN  IF i = 0 THEN "pending"
        ELSE IF content[i].status = "succeeded" THEN "succeeded"
        ELSE IF content[i].status = "failed" THEN "failed"
        ELSE "pending"

\* the scan of _wait_for_completion: what the first record of the job says
CompletionScan(content, job_id) ==
    LET i == FirstJob(content, job_id)
    IN  IF i = 0 THEN "pending"
        ELSE IF content[i].status = "succeeded" THEN "succeeded"
        ELSE IF content[i].status \in {"failed", "error"} THEN "failed"
        ELSE "pending"

\* json.loads(adapter.get('meta', '{}')) followed by meta.get('finetune_id'):
\* the finetune_id read, or the exception raised on the way
MetaFinetuneId(meta) ==
    CASE meta.kind = "absent" -> [exc |-> "", finetune_id |-> None]
      [] meta.kind = "null" -> [exc |-> TypeError, finetune_id |-> None]
      [] meta.kind = "unparsable" -> [exc |-> "JSONDecodeError", finetune_id |-> None]
      [] meta.kind = "nonobject" -> [exc |-> AttributeError, finetune_id |-> None]
      [] OTHER -> [exc |-> "",
                   finetune_id |-> IF meta.finetune_id = Missing THEN None
                                   ELSE meta.finetune_id]

\* the loop of _get_adapter_id from entry i of user_list on: the adapter id
\* found, or the exception that ends the call
RECURSIVE AdapterScan(_, _, _)
AdapterScan(user_list, i, job_id) ==
    IF i > Len(user_list)
    THEN [exc |-> AdapterNotFoundError, id |-> None]
    ELSE LET read == MetaFinetuneId(user_list[i].meta)
         IN  IF read.exc = "JSONDecodeError"
             THEN AdapterScan(user_list, i + 1, job_id)
             ELSE IF read.exc # "" THEN [exc |-> read.exc, id |-> None]
             ELSE IF read.finetune_id = job_id
             THEN [exc |-> "", id |-> user_list[i].id]
             ELSE AdapterScan(user_list, i + 1, job_id)

\* the caller builds a FinetuneJob on a client of its own
NewFinetune ==
    /\ pc = "idle"
    /\ finetune' = [c \in {"user"} |->
                       NewFinetuneJob(SXWLClient(create_default(api_key)))]
    /\ pc' = "returned"
    /\ op' = "FinetuneJob"
    /\ result' = Return(<<>>)
    /\ UNCHANGED <<api_key, rp_client, inference, resources_to_cleanup, frame,
                   resp, polls, sleeps, sent>>

\* FinetuneJob.start: the controller afterwards
Started(j, r) ==
    IF r.ok /\ r.body.job_id # Missing
    THEN [j EXCEPT !.job_id = r.body.job_id]
    ELSE j

\* FinetuneJob.start: the registry afterwards
StartRegistered(reg, r) ==
    IF r.ok /\ r.body.job_id # Missing
    THEN [reg EXCEPT !.finetune_jobs = @ \cup {r.body.job_id}]
    ELSE reg

\* FinetuneJob.start: how the call ends
StartResult(r) ==
    IF ~r.ok THEN Raise(HTTPError)
    ELSE IF r.body.job_id = Missing THEN Raise(KeyError)
    ELSE Return(<<>>)

\* FinetuneJob.start
Start(r) ==
    /\ pc = "idle"
    /\ "user" \in DOMAIN finetune
    /\ finetune' = [finetune EXCEPT !["user"] = Started(@, r)]
    /\ resources_to_cleanup' = StartRegistered(resources_to_cleanup, r)
    /\ pc' = "returned"
    /\ op' = "start"
    /\ resp' = r
    /\ result' = StartResult(r)
    /\ sent' = <<Request("POST", "/job/finetune", finetune["user"].client,
                         [finetune_config |-> "cfg"])>>
    /\ UNCHANGED <<api_key, rp_client, inference, frame, polls, sleeps>>

\* FinetuneJob.wait_until_complete; the default max_retries of
\* _wait_for_completion is scaled to MaxRetries
WaitUntilCompleteJob ==
    /\ pc = "idle"
    /\ "user" \in DOMAIN finetune
    /\ pc' = "wait_for_completion"
    /\ frame' = [self |-> "user", attempt |-> 0, max_retries |-> MaxRetries]
    /\ op' = "FinetuneJob.wait_until_complete"
    /\ UNCHANGED <<api_key, rp_client, inference, finetune, resources_to_cleanup,
                   resp, result, polls, sleeps, sent>>

\* FinetuneJob._wait_for_completion(max_retries) called on its own
WaitForCompletion(max_retries) ==
    /\ pc = "idle"
    /\ "user" \in DOMAIN finetune
    /\ pc' = "wait_for_completion"
    /\ frame' = [self |-> "user", attempt |-> 0, max_retries |-> max_retries]
    /\ op' = "_wait_for_completion"
    /\ UNCHANGED <<api_key, rp_client, inference, finetune, resources_to_cleanup,
                   resp, result, polls, sleeps, sent>>

\* where the thread goes when the loop of _wait_for_completion returns
AfterCompletion(o) ==
    IF o = "_wait_for_completion" THEN "returned" ELSE "get_adapter_id"

\* one iteration of the loop of _wait_for_completion up to its sleep: the
\* listing request and the scan of the answer
PollCompletion(r) ==
    /\ pc = "wait_for_completion"
    /\ ~Exhausted(frame)
    /\ LET me == finetune[frame.self]
           scan == CompletionScan(r.body, me.job_id)
       IN  /\ polls' = polls + 1
           /\ sent' = Append(sent, Request("GET", "/job/training", me.client,
                                           [current |-> 1, size |-> 1000]))
           /\ resp' = r
           /\ IF ~r.ok
              THEN /\ result' = Raise(HTTPError)
                   /\ pc' = "returned"
                   /\ frame' = frame
              ELSE IF scan = "succeeded"
              THEN /\ result' = IF AfterCompletion(op) = "returned"
                                THEN Return(<<>>) ELSE Running
                   /\ pc' = AfterCompletion(op)
                   /\ frame' = frame
              ELSE IF scan = "failed"
              THEN /\ result' = Raise(JobFailedError)
                   /\ pc' = "returned"
                   /\ frame' = frame
              ELSE /\ result' = Running
                   /\ pc' = "sleep_completion"
                   /\ frame' = frame
    /\ UNCHANGED <<api_key, rp_client, inference, finetune, resources_to_cleanup,
                   op, sleeps>>

\* time.sleep(retry_interval) at the end of an iteration of _wait_for_completion
SleepCompletion ==
    /\ pc = "sleep_completion"
    /\ sleeps' = sleeps + 1
    /\ frame' = [frame EXCEPT !.attempt = @ + 1]
    /\ pc' = "wait_for_completion"
    /\ resp' = NoResponse
    /\ UNCHANGED <<api_key, rp_client, inference, finetune, resources_to_cleanup,
                   op, result, polls, sent>>

\* the loop of _wait_for_completion ran out of attempts
TimeoutCompletion ==
    /\ pc = "wait_for_completion"
    /\ Exhausted(frame)
    /\ result' = Raise(TimeoutError)
    /\ pc' = "returned"
    /\ UNCHANGED <<api_key, rp_client, inference, finetune, resources_to_cleanup,
                   op, frame, resp, polls, sleeps, sent>>

\* FinetuneJob._get_adapter_id called on its own
GetAdapterIdCall ==
    /\ pc = "idle"
    /\ "user" \in DOMAIN finetune
    /\ pc' = "get_adapter_id"
    /\ op' = "_get_adapter_id"
    /\ UNCHANGED <<api_key, rp_client, inference, finetune, resources_to_cleanup,
                   frame, resp, result, polls, sleeps, sent>>

\* what the call that runs _get_adapter_id returns once it found the adapter
AdapterReturn(o, j) ==
    IF o = "_get_adapter_id" THEN Return(<<>>) ELSE Return(CompletionSummary(j))

\* FinetuneJob._get_adapter_id: the listing request and the scan
GetAdapterId(r) ==
    /\ pc = "get_adapter_id"
    /\ LET me == finetune["user"]
           scan == AdapterScan(r.body, 1, me.job_id)
           found == [me EXCEPT !.adapter_id = scan.id]
       IN  /\ sent' = Append(sent, Request("GET", "/resource/adapters", me.client,
                                           NoBody))
           /\ resp' = r
           /\ IF ~r.ok
              THEN /\ result' = Raise(HTTPError)
                   /\ finetune' = finetune
              ELSE IF scan.exc # ""
              THEN /\ result' = Raise(scan.exc)
                   /\ finetune' = finetune
              ELSE /\ result' = AdapterReturn(op, found)
                   /\ finetune' = [finetune EXCEPT !["user"] = found]
    /\ pc' = "returned"
    /\ UNCHANGED <<api_key, rp_client, inference, resources_to_cleanup, frame,
                   op, polls, sleeps>>

\* SXWLClient.delete_finetune_job: the registry afterwards
FinetuneDeleted(reg, finetune_id, r) ==
    IF r.ok
    THEN [reg EXCEPT !.finetune_jobs = @ \ {finetune_id}]
    ELSE reg

\* SXWLClient.delete_finetune_job on the Endpoint's client
DeleteFinetune(finetune_id, r) ==
    /\ pc = "idle"
    /\ resources_to_cleanup' = FinetuneDeleted(resources_to_cleanup, finetune_id, r)
    /\ pc' = "returned"
    /\ op' = "delete_finetune_job"
    /\ resp' = r
    /\ result' = Return(<<>>)
    /\ sent' = <<Request("POST", "/userJob/job_del", rp_client,
                         [job_id |-> finetune_id])>>
    /\ UNCHANGED <<api_key, rp_client, inference, finetune, frame, polls, sleeps>>

\* responses of GET /resource/models: the two lists, each present or not
ModelsResponses ==
    {TransportFailure}
    \cup {[ok |-> TRUE, body |-> [public_list |-> p, user_list |-> u]] :
             p \in SeqsUpTo({"m1"}, 1), u \in SeqsUpTo({"m2"}, 1)}

\* SXWLClient.get_models: the merged list, empty on any failure
ModelsOf(r) == IF r.ok THEN r.body.public_list \o r.body.user_list ELSE <<>>

\* SXWLClient.get_models on the Endpoint's client
GetModels(r) ==
    /\ pc = "idle"
    /\ pc' = "returned"
    /\ op' = "get_models"
    /\ resp' = r
    /\ result' = Return(ModelsOf(r))
    /\ sent' = <<Request("GET", "/resource/models", rp_client, NoBody)>>
    /\ UNCHANGED <<api_key, rp_client, inference, finetune, resources_to_cleanup,
                   frame, polls, sleeps>>

\* the steps of the InferenceService controller and of the calls that make one
NextInference ==
    \/ Continue
    \/ NewInference
    \/ \E c \in ModelConfigs, r \in DeployResponses : Deploy(c, r)
    \/ \E c \in ModelConfigs, r \in DeployResponses : Run(c, r)
    \/ \E c \in ModelConfigs, r \in DeployResponses : RunSync(c, r)
    \/ WaitUntilComplete
    \/ \E m \in 0..MaxRetries : WaitForReady(m)
    \/ \E r \in StatusResponses : PollReady(r)
    \/ SleepReady
    \/ TimeoutReady
    \/ \E r \in StatusResponses : Status(r)
    \/ \E r \in StatusResponses : Output(r)
    \/ \E r \in PlainResponses : Chat(r)
    \/ \E n \in ServiceNames, r \in PlainResponses : DeleteInference(n, r)

\* the steps of the Endpoint facade, with the credential they read
NextFacade ==
    \/ Continue
    \/ \E k \in ApiKeys : SetApiKey(k)
    \/ NewEndpoint
    \/ \E c \in ModelConfigs, r \in DeployResponses : Run(c, r)
    \/ \E c \in ModelConfigs, r \in DeployResponses : RunSync(c, r)
    \/ \E r \in StatusResponses : PollReady(r)
    \/ SleepReady
    \/ TimeoutReady
    \/ \E r \in PlainResponses : Health(r)
    \/ \E r \in PlainResponses : PurgeQueue(r)

\* the steps of the FinetuneJob controller
NextFinetune ==
    \/ Continue
    \/ NewFinetune
    \/ \E r \in StartResponses : Start(r)
    \/ WaitUntilCompleteJob
    \/ \E m \in 0..MaxRetries : WaitForCompletion(m)
    \/ \E r \in TrainingResponses : PollCompletion(r)
    \/ SleepCompletion
    \/ TimeoutCompletion
    \/ GetAdapterIdCall
    \/ \E r \in AdapterResponses : GetAdapterId(r)
    \/ \E j \in JobIds, r \in PlainResponses : DeleteFinetune(j, r)

\* the steps that give a controller its identifier and that write the registry
NextLifecycle ==
    \/ Continue
    \/ NewInference
    \/ \E c \in ModelConfigs, r \in DeployResponses : Deploy(c, r)
    \/ \E c \in ModelConfigs, r \in DeployResponses : Run(c, r)
    \/ \E c \in ModelConfigs, r \in DeployResponses : RunSync(c, r)
    \/ \E r \in StatusResponses : PollReady(r)
    \/ SleepReady
    \/ TimeoutReady
    \/ \E n \in ServiceNames, r \in PlainResponses : DeleteInference(n, r)
    \/ NewFinetune
    \/ \E r \in StartResponses : Start(r)
    \/ \E j \in JobIds, r \in PlainResponses : DeleteFinetune(j, r)

\* the two polling loops, with the calls that give their controllers an
\* identifier and the adapter lookup that follows a completed job
NextPolling ==
    \/ Continue
    \/ NewInference
    \/ \E c \in ModelConfigs, r \in DeployResponses : Deploy(c, r)
    \/ WaitUntilComplete
    \/ \E m \in 0..MaxRetries : WaitForReady(m)
    \/ \E r \in StatusResponses : PollReady(r)
    \/ SleepReady
    \/ TimeoutReady
    \/ NewFinetune
    \/ \E r \in StartResponses : Start(r)
    \/ WaitUntilCompleteJob
    \/ \E m \in 0..MaxRetries : WaitForCompletion(m)
    \/ \E r \in TrainingResponses : PollCompletion(r)
    \/ SleepCompletion
    \/ TimeoutCompletion
    \/ \E r \in AdapterResponses : GetAdapterId(r)

\* the steps that write the registry, with the reads, waits and chats made
\* between them
NextRegistry ==
    \/ NextLifecycle
    \/ WaitUntilComplete
    \/ \E r \in StatusResponses : Status(r)
    \/ \E r \in StatusResponses : Output(r)
    \/ \E r \in PlainResponses : Chat(r)
    \/ \E m \in 0..MaxRetries : WaitForCompletion(m)
    \/ \E r \in TrainingResponses : PollCompletion(r)
    \/ SleepCompletion
    \/ TimeoutCompletion

\* every step of the program
Next ==
    \/ NextInference
    \/ NextFacade
    \/ NextFinetune
    \/ \E r \in ModelsResponses : GetModels(r)

Spec == Init /\ [][Next]_vars

SpecInference == Init /\ [][NextInference]_vars

SpecFacade == Init /\ [][NextFacade]_vars

SpecFinetune == Init /\ [][NextFinetune]_vars

SpecLifecycle == Init /\ [][NextLifecycle]_vars

SpecPolling == Init /\ [][NextPolling]_vars

SpecRegistry == Init /\ [][NextRegistry]_vars

\* a step of a polling loop that is under way: the thread inside a wait is not
\* suspended for ever: each request ends with a response or with an
\* exception, and each time.sleep returns
LoopStep ==
    \/ \E r \in StatusResponses : PollReady(r)
    \/ SleepReady
    \/ TimeoutReady
    \/ \E r \in TrainingResponses : PollCompletion(r)
    \/ SleepCompletion
    \/ TimeoutCompletion

\* the two polling loops called with every max_retries, on controllers that
\* have or have not been given their identifier
NextLoops ==
    \/ Continue
    \/ NewInference
    \/ \E c \in ModelConfigs, r \in DeployResponses : Deploy(c, r)
    \/ WaitUntilComplete
    \/ \E m \in 0..MaxRetries : WaitForReady(m)
    \/ NewFinetune
    \/ \E r \in StartResponses : Start(r)
    \/ \E m \in 0..MaxRetries : WaitForCompletion(m)
    \/ LoopStep

SpecLoopsFair == Init /\ [][NextLoops]_vars /\ WF_vars(LoopStep)

(***************************************************************************)
(* The claims.                                                             *)
(***************************************************************************)
\* the calls that run the loop of _wait_for_ready
ReadyOps == {"wait_until_complete", "_wait_for_ready", "run_sync"}

\* the state right after a status poll of _wait_for_ready that did not raise:
\* resp is the answer to that poll
AfterReadyPoll ==
    /\ op \in ReadyOps
    /\ polls >= 1
    /\ pc \in {"sleep_ready", "returned"}
    /\ result # Raise(TimeoutError)
    /\ resp.ok

\* the controller the running (or just ended) _wait_for_ready works on
Polled == inference[frame.self]

\* data holds a running record of the service
HasRunning(data, name) ==
    \E i \in 1..Len(data) :
        data[i].service_name = name /\ data[i].status = "running"

\* the first record of the service in data is running, with this api
FirstIsRunning(data, name, api) ==
    \E i \in 1..Len(data) :
        /\ data[i].service_name = name
        /\ data[i].status = "running"
        /\ data[i].api = api
        /\ \A j \in 1..(i - 1) : data[j].service_name # name

\* no status poll and no sleep can follow
NoFurtherPoll ==
    /\ ~ENABLED (\E r \in StatusResponses : PollReady(r))
    /\ ~ENABLED SleepReady

\* C1 as claimed: whenever the answer to a poll of _wait_for_ready holds a
\* running record of the controller's service, the wait returns at that poll
\* with api_endpoint set to the api of such a record.
C1_ReturnsWhenSomeRecordRuns ==
    (AfterReadyPoll /\ HasRunning(resp.body, Polled.service_name))
    => /\ pc = "returned"
       /\ result.kind = "return"
       /\ \E a \in Apis : /\ Polled.api_endpoint = a
                          /\ \E i \in 1..Len(resp.body) :
                                /\ resp.body[i].service_name = Polled.service_name
                                /\ resp.body[i].status = "running"
                                /\ resp.body[i].api = a

\* C1 amended: whenever the first record of the controller's service in the
\* answer to a poll of _wait_for_ready is running, the wait returns at that
\* poll with that record's api as api_endpoint, after exactly one sleep per
\* earlier poll, and neither a poll nor a sleep can follow; the wait goes to
\* sleep only after an answer whose first record of the service is not running.
C1_ReturnsAtFirstRunningPoll ==
    /\ \A a \in Apis :
          (AfterReadyPoll /\ FirstIsRunning(resp.body, Polled.service_name, a))
          => /\ pc = "returned"
             /\ result.kind = "return"
             /\ Polled.api_endpoint = a
             /\ polls = sleeps + 1
             /\ polls <= frame.max_retries
             /\ NoFurtherPoll
    /\ (op \in ReadyOps /\ pc = "returned" /\ result.kind = "return")
          => /\ AfterReadyPoll
             /\ FirstIsRunning(resp.body, Polled.service_name, Polled.api_endpoint)
    /\ (op \in ReadyOps /\ pc = "wait_for_ready") => polls = sleeps

\* C1 witness: two answers without a running record, then a running one: the
\* wait has returned after exactly 3 polls and 2 sleeps
C1_Witness ==
    /\ pc = "returned"
    /\ op = "_wait_for_ready"
    /\ result.kind = "return"
    /\ polls = 3
    /\ sleeps = 2
    /\ Polled.api_endpoint \in Apis

\* the calls that run the loop of _wait_for_completion
CompletionOps == {"FinetuneJob.wait_until_complete", "_wait_for_completion"}

\* the state right after a listing poll of _wait_for_completion that did not
\* raise a transport error: resp is the answer to that poll
AfterCompletionPoll ==
    /\ op \in CompletionOps
    /\ polls >= 1
    /\ Len(sent) = polls
    /\ pc \in {"sleep_completion", "returned", "get_adapter_id"}
    /\ result # Raise(TimeoutError)
    /\ resp.ok

\* the caller's fine-tune job
Job == finetune["user"]

\* content holds a record of the job with one of these statuses
HasJobStatus(content, job_id, statuses) ==
    \E i \in 1..Len(content) :
        content[i].jobName = job_id /\ content[i].status \in statuses

\* the first record of the job in content has one of these statuses
FirstJobStatus(content, job_id, statuses) ==
    \E i \in 1..Len(content) :
        /\ content[i].jobName = job_id
        /\ content[i].status \in statuses
        /\ \A j \in 1..(i - 1) : content[j].jobName # job_id

\* no listing poll, no sleep and no adapter lookup can follow
NoFurtherJobStep ==
    /\ ~ENABLED (\E r \in TrainingResponses : PollCompletion(r))
    /\ ~ENABLED SleepCompletion
    /\ ~ENABLED (\E r \in AdapterResponses : GetAdapterId(r))

\* C2 as claimed: whenever the answer to a poll of _wait_for_completion holds
\* a record of the job with status "failed" or "error", the wait ends at that
\* poll with JobFailedError.
C2_FailsWhenSomeRecordFailed ==
    (AfterCompletionPoll /\ HasJobStatus(resp.body, Job.job_id, {"failed", "error"}))
    => (pc = "returned" /\ result = Raise(JobFailedError))

\* C2 amended: whenever the first record of the job in the answer to a poll of
\* _wait_for_completion has status "failed" or "error", the wait ends at that
\* poll with JobFailedError: it has slept once per earlier poll only, and no
\* poll, sleep or adapter lookup can follow, whatever attempts remain; and
\* JobFailedError is raised in no other case.
C2_FailsAtFirstFailedPoll ==
    /\ (AfterCompletionPoll
        /\ FirstJobStatus(resp.body, Job.job_id, {"failed", "error"}))
       => /\ pc = "returned"
          /\ result = Raise(JobFailedError)
          /\ sleeps = polls - 1
          /\ NoFurtherJobStep
    /\ (op \in CompletionOps /\ result = Raise(JobFailedError))
       => /\ AfterCompletionPoll
          /\ FirstJobStatus(resp.body, Job.job_id, {"failed", "error"})

\* C2 witness: the job failed at the 2nd poll while attempts remained
C2_Witness ==
    /\ pc = "returned"
    /\ op \in CompletionOps
    /\ result = Raise(JobFailedError)
    /\ polls = 2
    /\ sleeps = 1
    /\ polls < frame.max_retries

\* the state right after a call of _get_adapter_id whose listing request did
\* not raise a transport error: resp is the adapter listing
AfterAdapterScan ==
    /\ op \in {"_get_adapter_id", "FinetuneJob.wait_until_complete"}
    /\ pc = "returned"
    /\ Len(sent) = polls + 1
    /\ resp.ok

\* metadata that is not a JSON-encoded object
Malformed(meta) == meta.kind \in {"absent", "null", "unparsable", "nonobject"}

\* C3 as claimed: when only malformed metadata entries precede a well-formed
\* entry whose finetune_id equals job_id, _get_adapter_id skips them without
\* failing and sets adapter_id to the id of that entry.
C3_MalformedEntriesSkipped ==
    AfterAdapterScan
    => \A i \in 1..Len(resp.body) :
          (/\ resp.body[i].meta.kind = "object"
           /\ resp.body[i].meta.finetune_id = Job.job_id
           /\ \A j \in 1..(i - 1) : Malformed(resp.body[j].meta))
          => (result.kind = "return" /\ Job.adapter_id = resp.body[i].id)

\* C4, in every state: an answer without a running record of the service sends
\* the wait to sleep; before each poll the wait has polled and slept once per
\* attempt made, polls while attempts remain and times out exactly when none
\* remains; a timed-out wait has polled max_retries times.
C4_CountsPolls ==
    /\ (AfterReadyPoll /\ ~HasRunning(resp.body, Polled.service_name))
       => pc = "sleep_ready"
    /\ (op \in ReadyOps /\ pc = "wait_for_ready")
       => /\ polls = frame.attempt
          /\ sleeps = frame.attempt
          /\ polls <= frame.max_retries
          /\ (polls < frame.max_retries)
                <=> ENABLED (\E r \in StatusResponses : PollReady(r))
          /\ (polls = frame.max_retries) <=> ENABLED TimeoutReady
    /\ (op \in ReadyOps /\ pc = "returned" /\ result = Raise(TimeoutError))
       => /\ polls = frame.max_retries
          /\ sleeps = frame.max_retries

\* C4, in every step: a poll that sends the wait to sleep, the sleep and the
\* timeout leave the controller (service_name, api_endpoint) as it was, so a
\* wait that times out has not set api_endpoint.
C4_LeavesEndpoint ==
    (/\ pc \in {"wait_for_ready", "sleep_ready"}
     /\ (pc' \in {"wait_for_ready", "sleep_ready"} \/ result' = Raise(TimeoutError)))
    => inference' = inference

\* C4: if no poll response holds a running record of service_name and no poll
\* raises, _wait_for_ready polls exactly max_retries times and then raises
\* TimeoutError, without having set api_endpoint.
C4_TimeoutAfterMaxPolls == []C4_CountsPolls /\ [][C4_LeavesEndpoint]_vars

\* C4 witness: a deployed service never reported running: the wait has timed
\* out after MaxRetries polls with api_endpoint unset
C4_Witness ==
    /\ pc = "returned"
    /\ op = "wait_until_complete"
    /\ result = Raise(TimeoutError)
    /\ polls = MaxRetries
    /\ Polled.service_name \in ServiceNames
    /\ Polled.api_endpoint = None

\* C5 as claimed, first part: whenever the answer to a poll of
\* _wait_for_completion holds a record of the job with status "succeeded",
\* the loop ends successfully at that poll.
C5_SucceedsWhenSomeRecordSucceeded ==
    (AfterCompletionPoll /\ HasJobStatus(resp.body, Job.job_id, {"succeeded"}))
    => (pc = "get_adapter_id" \/ (pc = "returned" /\ result.kind = "return"))

\* C5 amended: the first record of the job in the answer decides: "succeeded"
\* ends the loop successfully at that poll; no record of the job, or a first
\* record that is not terminal, sends the loop to sleep and on to another
\* attempt; the loop polls while attempts remain and raises TimeoutError
\* exactly when none remains, after max_retries polls.
C5_SucceedsPendsOrTimesOut ==
    /\ (AfterCompletionPoll /\ FirstJobStatus(resp.body, Job.job_id, {"succeeded"}))
       => /\ (pc = "get_adapter_id" \/ (pc = "returned" /\ result.kind = "return"))
          /\ sleeps = polls - 1
          /\ ~ENABLED (\E r \in TrainingResponses : PollCompletion(r))
          /\ ~ENABLED SleepCompletion
    /\ (AfterCompletionPoll
        /\ ~FirstJobStatus(resp.body, Job.job_id, {"succeeded", "failed", "error"}))
       => (pc = "sleep_completion" /\ ENABLED SleepCompletion)
    /\ (op \in CompletionOps /\ pc = "wait_for_completion")
       => /\ polls = frame.attempt
          /\ sleeps = frame.attempt
          /\ polls <= frame.max_retries
          /\ (polls < frame.max_retries)
                <=> ENABLED (\E r \in TrainingResponses : PollCompletion(r))
          /\ (polls = frame.max_retries) <=> ENABLED TimeoutCompletion
    /\ (op \in CompletionOps /\ result = Raise(TimeoutError))
       => /\ pc = "returned"
          /\ polls = frame.max_retries
          /\ sleeps = frame.max_retries

\* C5 witness: the job was absent from the first listing and succeeded in the
\* second: the loop has ended successfully after 2 polls and 1 sleep
C5_Witness ==
    /\ op = "_wait_for_completion"
    /\ pc = "returned"
    /\ result.kind = "return"
    /\ polls = 2
    /\ sleeps = 1

\* the caller's inference controller
Service == inference["user"]

\* data holds no record of the service
NoRecord(data, name) == \A i \in 1..Len(data) : data[i].service_name # name

\* record i of data is the first one of the service
FirstRecord(data, name, i) ==
    /\ data[i].service_name = name
    /\ \A j \in 1..(i - 1) : data[j].service_name # name

\* C6 as claimed: status() and output() answer "unknown" without raising when
\* the listing has no record of the service; output() answers the status label
\* of a record of the service that is not running; output() answers the chat
\* URL only if the listing holds a running record of the service.
C6_ReportsAnyRecord ==
    /\ (pc = "returned" /\ op = "status" /\ resp.ok
        /\ NoRecord(resp.body, Service.service_name))
       => result = Return(Str("unknown"))
    /\ (pc = "returned" /\ op = "output" /\ resp.ok)
       => /\ NoRecord(resp.body, Service.service_name)
             => result = Return([status |-> "unknown"])
          /\ \A i \in 1..Len(resp.body) :
                (/\ resp.body[i].service_name = Service.service_name
                 /\ resp.body[i].status # "running")
                => result = Return([status |-> resp.body[i].status])
          /\ (result.kind = "return" /\ "chat_url" \in DOMAIN result.value)
             => HasRunning(resp.body, Service.service_name)

\* C6 amended: status() and output() report what the listing says and nothing
\* the controller holds: "unknown", without raising, when the listing has no
\* record of the service; otherwise the first record of the service decides:
\* status() answers its status, output() answers its status label if it is not
\* running and the chat URL (its api) if it is running.
C6_ReportsFirstRecord ==
    /\ (pc = "returned" /\ op = "status" /\ resp.ok)
       => /\ NoRecord(resp.body, Service.service_name)
             => result = Return(Str("unknown"))
          /\ \A i \in 1..Len(resp.body) :
                FirstRecord(resp.body, Service.service_name, i)
                => result = Return(Str(resp.body[i].status))
    /\ (pc = "returned" /\ op = "output" /\ resp.ok)
       => /\ NoRecord(resp.body, Service.service_name)
             => result = Return([status |-> "unknown"])
          /\ \A i \in 1..Len(resp.body) :
                FirstRecord(resp.body, Service.service_name, i)
                => result = IF resp.body[i].status = "running"
                            THEN Return([chat_url |-> resp.body[i].api])
                            ELSE Return([status |-> resp.body[i].status])

\* C6 witness: output() on a deployed controller that has never polled, the
\* platform listing the service as deploying: the answer is that label
C6_Witness ==
    /\ pc = "returned"
    /\ op = "output"
    /\ Service.service_name \in ServiceNames
    /\ Service.api_endpoint = None
    /\ result = Return([status |-> "deploying"])

\* C7: a chat() on a controller whose api_endpoint is not set ends with
\* NotReadyError and has sent no request; a chat() that returns was made with
\* api_endpoint set and sent its one request to it.
C7_ChatNeedsEndpoint ==
    (pc = "returned" /\ op = "chat")
    => /\ (Service.api_endpoint = None \/ Service.api_endpoint = "")
          => (result = Raise(NotReadyError) /\ sent = <<>>)
       /\ result.kind = "return"
          => /\ Service.api_endpoint \in Apis
             /\ Len(sent) = 1
             /\ sent[1].path = Service.api_endpoint

\* C7 witness: chat() after deploy and before any successful wait
C7_Witness ==
    /\ pc = "returned"
    /\ op = "chat"
    /\ Service.service_name \in ServiceNames
    /\ Service.api_endpoint = None
    /\ result = Raise(NotReadyError)
    /\ sent = <<>>

\* C8, in every step: a deploy (on the controller, through run or through
\* run_sync) answered without service_name raises KeyError, the code's
\* DeploymentError, and leaves the caller's controllers and the registry as
\* they were; a start answered without job_id does the same.
C8_MissingIdentifierStep ==
    /\ (/\ pc = "idle"
        /\ op' \in {"deploy", "run", "run_sync"}
        /\ resp'.ok
        /\ resp'.body.service_name = Missing)
       => /\ pc' = "returned"
          /\ result' = Raise(KeyError)
          /\ inference' = inference
          /\ resources_to_cleanup' = resources_to_cleanup
    /\ (/\ pc = "idle"
        /\ op' = "start"
        /\ resp'.ok
        /\ resp'.body.job_id = Missing)
       => /\ pc' = "returned"
          /\ result' = Raise(KeyError)
          /\ finetune' = finetune
          /\ resources_to_cleanup' = resources_to_cleanup

\* C8: deploy / start with a response that lacks the identifier fails with
\* DeploymentError; the identifier and the registry are as before the call.
C8_MissingIdentifierFails == [][C8_MissingIdentifierStep]_vars

\* C8 witness: a deploy on a fresh controller was answered without
\* service_name: the identifier is still unset and nothing is registered
C8_Witness ==
    /\ pc = "returned"
    /\ op = "deploy"
    /\ resp.ok
    /\ resp.body.service_name = Missing
    /\ result = Raise(KeyError)
    /\ Service.service_name = None
    /\ resources_to_cleanup.inference_services = {}

\* C9 as claimed: no configuration is ever built from an absent or empty key:
\* building the Endpoint with such a key ends with ConfigurationError, no
\* client holds such a token, and no request carries a header made from it.
C9_NoConfigurationFromEmptyKey ==
    /\ (pc = "returned" /\ op = "Endpoint"
        /\ (api_key.kind = "none" \/ api_key.val = ""))
       => result = Raise("ConfigurationError")
    /\ rp_client.token.kind # "none" /\ rp_client.token.val # ""
    /\ \A i \in 1..Len(sent) :
          sent[i].Authorization \notin {<<"Bearer", "None">>, <<"Bearer", "">>}

\* C10 as claimed: every API request of a facade call (run, run_sync, health,
\* purge_queue) carries the token of the credential as it is during the call.
C10_FacadeUsesCurrentKey ==
    (pc # "idle" /\ op \in {"run", "run_sync", "health", "purge_queue"})
    => \A i \in 1..Len(sent) :
          sent[i].Authorization =
             <<"Bearer", IF api_key.kind = "none" THEN "None" ELSE api_key.val>>

\* the listing reports the service as running: it has a record of the service,
\* and every record it has of the service is running with the one api
ReportsRunning(data, name, api) ==
    /\ \E i \in 1..Len(data) : data[i].service_name = name
    /\ \A i \in 1..Len(data) :
          data[i].service_name = name
          => (data[i].status = "running" /\ data[i].api = api)

\* C11, in every step of run_sync: its deploy gives the local controller the
\* name the platform answered and goes on to the loop of wait_until_complete;
\* when the first poll did not end the call and the second poll's listing
\* reports the service as running, the call returns at that poll with 2 polls
\* and 1 sleep made and with the summary record of the name, the api of the
\* running record and the status "running".
C11_RunSyncStep ==
    /\ (pc = "idle" /\ op' = "run_sync" /\ pc' = "wait_for_ready")
       => /\ resp'.ok
          /\ inference'["sync"].service_name = resp'.body.service_name
          /\ inference'["sync"].service_name \in ServiceNames
          /\ frame'.self = "sync"
          /\ polls' = 0 /\ sleeps' = 0
    /\ (pc \in {"wait_for_ready", "sleep_ready"} /\ op = "run_sync")
       => inference'["sync"].service_name = inference["sync"].service_name
    /\ (/\ pc = "wait_for_ready"
        /\ op = "run_sync"
        /\ polls = 1
        /\ polls' = 2
        /\ resp'.ok
        /\ \E api \in Apis :
              ReportsRunning(resp'.body, inference["sync"].service_name, api))
       => /\ pc' = "returned"
          /\ sleeps' = 1
          /\ sleeps' <= 2
          /\ \E api \in Apis :
                /\ ReportsRunning(resp'.body, inference["sync"].service_name, api)
                /\ result' = Return([service_name |-> inference["sync"].service_name,
                                     api_endpoint |-> api,
                                     status |-> "running"])

C12_DeleteStep ==
    /\ (pc = "idle" /\ op' = "delete_inference_service")
       => /\ pc' = "returned"
          /\ result'.kind = "return"
          /\ resources_to_cleanup'.finetune_jobs = resources_to_cleanup.finetune_jobs
          /\ resp'.ok
             => resources_to_cleanup'.inference_services =
                   resources_to_cleanup.inference_services
                      \ {sent'[1].body.service_name}
          /\ ~resp'.ok => resources_to_cleanup' = resources_to_cleanup
    /\ (pc = "idle" /\ op' = "delete_finetune_job")
       => /\ pc' = "returned"
          /\ result'.kind = "return"
          /\ resources_to_cleanup'.inference_services =
                resources_to_cleanup.inference_services
          /\ resp'.ok
             => resources_to_cleanup'.finetune_jobs =
                   resources_to_cleanup.finetune_jobs \ {sent'[1].body.job_id}
          /\ ~resp'.ok => resources_to_cleanup' = resources_to_cleanup

\* C12: delete_inference_service / delete_finetune_job never raise, and the
\* identifier leaves the cleanup registry if and only if the remote delete
\* succeeded; a failed deletion stays tracked.
C12_DeleteBestEffort == [][C12_DeleteStep]_vars

\* C12 witness: a delete of a registered service failed at the platform: the
\* call returned and the service is still registered
C12_Witness ==
    /\ pc = "returned"
    /\ op = "delete_inference_service"
    /\ ~resp.ok
    /\ result.kind = "return"
    /\ sent[1].body.service_name \in resources_to_cleanup.inference_services

\* C13 as claimed, in every step: a deploy / start that assigns an identifier
\* is made on a controller that has none yet, so an assigned identifier is
\* never replaced by a second deploy / start; and a polling operation is
\* started only on a controller that has its identifier.
C13_OneDeployStep ==
    /\ (pc = "idle" /\ op' = "deploy" /\ result'.kind = "return")
       => inference["user"].service_name = None
    /\ (pc = "idle" /\ op' = "deploy" /\ inference["user"].service_name # None)
       => inference'["user"].service_name = inference["user"].service_name
    /\ (pc = "idle" /\ op' = "start" /\ finetune["user"].job_id # None)
       => finetune'["user"].job_id = finetune["user"].job_id
    /\ (pc = "idle" /\ pc' = "wait_for_ready")
       => inference'[frame'.self].service_name # None
    /\ (pc = "idle" /\ pc' = "wait_for_completion")
       => finetune'[frame'.self].job_id # None

\* C13 as claimed: a controller has at most one outstanding deploy / start, and
\* no polling operation runs on a controller without an identifier.
C13_AtMostOneDeploy == [][C13_OneDeployStep]_vars

\* C14, in every state: once the request of a poll of either loop has failed
\* in transport, the wait has ended with that error and not with TimeoutError,
\* within its attempts and having slept once per earlier poll only; no poll,
\* no sleep, no timeout and no adapter lookup can follow.
C14_EndsAtFailedPoll ==
    /\ (op \in ReadyOps /\ polls >= 1 /\ ~resp.ok)
       => /\ pc = "returned"
          /\ result = Raise(HTTPError)
          /\ result # Raise(TimeoutError)
          /\ polls <= frame.max_retries
          /\ sleeps = polls - 1
          /\ NoFurtherPoll
          /\ ~ENABLED TimeoutReady
    /\ (op \in CompletionOps /\ polls >= 1 /\ Len(sent) = polls /\ ~resp.ok)
       => /\ pc = "returned"
          /\ result = Raise(HTTPError)
          /\ result # Raise(TimeoutError)
          /\ polls <= frame.max_retries
          /\ sleeps = polls - 1
          /\ NoFurtherJobStep
          /\ ~ENABLED TimeoutCompletion

\* C14, in every step: a poll whose request failed in transport leaves the
\* controller (api_endpoint, adapter_id and the identifiers) as it was.
C14_LeavesController ==
    /\ (pc = "wait_for_ready" /\ polls' = polls + 1 /\ ~resp'.ok)
       => inference' = inference
    /\ (pc = "wait_for_completion" /\ polls' = polls + 1 /\ ~resp'.ok)
       => finetune' = finetune

\* C14: a transport error at poll k of _wait_for_ready or _wait_for_completion
\* ends the wait at once with that error, not TimeoutError; there is no poll
\* k+1, and api_endpoint / adapter_id are not set.
C14_TransportErrorPropagates ==
    []C14_EndsAtFailedPoll /\ [][C14_LeavesController]_vars

\* C14 witness: the 2nd status poll of a wait on a deployed service failed in
\* transport while attempts remained; api_endpoint is unset
C14_Witness ==
    /\ pc = "returned"
    /\ op = "wait_until_complete"
    /\ ~resp.ok
    /\ result = Raise(HTTPError)
    /\ polls = 2
    /\ polls < frame.max_retries
    /\ Polled.service_name \in ServiceNames
    /\ Polled.api_endpoint = None

\* entry i of the adapter listing is of the job: its metadata is a JSON object
\* whose finetune_id is job_id
IsOfJob(user_list, i, job_id) ==
    /\ user_list[i].meta.kind = "object"
    /\ user_list[i].meta.finetune_id = job_id

\* C15 as claimed, for a started job: after _get_adapter_id has read the
\* listing, adapter_id is the id of the first entry of the job if there is
\* one, and the call has failed with AdapterNotFoundError if there is none;
\* a summary record wait_until_complete returns carries an adapter_id.
C15_FirstMatchOrNotFound ==
    /\ (AfterAdapterScan /\ Job.job_id \in JobIds)
       => /\ \A i \in 1..Len(resp.body) :
                (/\ IsOfJob(resp.body, i, Job.job_id)
                 /\ \A j \in 1..(i - 1) : ~IsOfJob(resp.body, j, Job.job_id))
                => (result.kind = "return" /\ Job.adapter_id = resp.body[i].id)
          /\ (\A i \in 1..Len(resp.body) : ~IsOfJob(resp.body, i, Job.job_id))
             => result = Raise(AdapterNotFoundError)
    /\ (/\ pc = "returned"
        /\ op = "FinetuneJob.wait_until_complete"
        /\ result.kind = "return")
       => result.value.adapter_id \in AdapterIds

\* C16 as claimed: in each way of reaching deploy (deploy on the controller,
\* run, run_sync) the POSTed body is the input unchanged when the input has an
\* "input" key, whatever it holds, and is the input wrapped under "input" when
\* it has none.
C16_WrapsIffNotNested ==
    (pc # "idle" /\ op \in {"deploy", "run", "run_sync"})
    => /\ sent[1].method = "POST"
       /\ sent[1].body.doc.input # Missing => ~sent[1].body.wrapped
       /\ sent[1].body.doc.input = Missing => sent[1].body.wrapped

\* the step is a deploy (on a controller, through run or through run_sync)
\* that did not raise
DeploySucceeds ==
    /\ pc = "idle"
    /\ op' \in {"deploy", "run", "run_sync"}
    /\ result'.kind # "raise"

\* the step is a start that did not raise
StartSucceeds == pc = "idle" /\ op' = "start" /\ result'.kind # "raise"

\* the step is a delete call of this kind whose request succeeded
DeleteSucceeds(o) == pc = "idle" /\ op' = o /\ resp'.ok

\* C17, in every step: a successful deploy / start adds the identifier the
\* platform returned to its registry set; a successful delete removes its
\* target and nothing else; every other step (failed deploy, start and delete,
\* status, output, a poll, a sleep, a timeout, chat, the adapter lookup) leaves
\* the registry as it was.
C17_RegistryStep ==
    /\ resources_to_cleanup'.inference_services =
          IF DeploySucceeds
          THEN resources_to_cleanup.inference_services
                  \cup {resp'.body.service_name}
          ELSE IF DeleteSucceeds("delete_inference_service")
          THEN resources_to_cleanup.inference_services
                  \ {sent'[1].body.service_name}
          ELSE resources_to_cleanup.inference_services
    /\ resources_to_cleanup'.finetune_jobs =
          IF StartSucceeds
          THEN resources_to_cleanup.finetune_jobs \cup {resp'.body.job_id}
          ELSE IF DeleteSucceeds("delete_finetune_job")
          THEN resources_to_cleanup.finetune_jobs \ {sent'[1].body.job_id}
          ELSE resources_to_cleanup.finetune_jobs
    /\ DeploySucceeds => resp'.body.service_name \in ServiceNames
    /\ StartSucceeds => resp'.body.job_id \in JobIds

\* C17: the registry holds exactly the identifiers returned by a successful
\* deploy / start and not since the target of a successful delete: it starts
\* empty and changes by those two kinds of step only, each by its own
\* identifier.
C17_RegistryTracksLiveResources ==
    /\ resources_to_cleanup = [inference_services |-> {}, finetune_jobs |-> {}]
    /\ [][C17_RegistryStep]_vars

\* C17 witness: two services were deployed and one of them deleted since: the
\* registry holds the other one, beside a started job
C17_Witness ==
    /\ pc = "returned"
    /\ op = "delete_inference_service"
    /\ resp.ok
    /\ sent[1].body.service_name = "s1"
    /\ resources_to_cleanup.inference_services = {"s2"}
    /\ resources_to_cleanup.finetune_jobs = {"j1"}

\* C18 as claimed, in every step: a controller that has its api_endpoint set
\* after the step has its service_name set, and either had both as they are
\* before the step, or the step is a poll whose listing holds a running record
\* of that service_name with that api.
C18_EndpointOfCurrentServiceStep ==
    \A c \in DOMAIN inference' :
        inference'[c].api_endpoint # None
        => /\ inference'[c].service_name # None
           /\ \/ /\ c \in DOMAIN inference
                 /\ inference[c].service_name = inference'[c].service_name
                 /\ inference[c].api_endpoint = inference'[c].api_endpoint
              \/ /\ polls' = polls + 1
                 /\ resp'.ok
                 /\ \E i \in 1..Len(resp'.body) :
                       /\ resp'.body[i].service_name = inference'[c].service_name
                       /\ resp'.body[i].status = "running"
                       /\ resp'.body[i].api = inference'[c].api_endpoint

\* C18 as claimed: api_endpoint, when set, is the api of a running record a
\* poll observed for the controller's current service_name, and never that of
\* another service, repeated deploys included.
C18_EndpointOfCurrentService == [][C18_EndpointOfCurrentServiceStep]_vars

\* a polling loop is under way
InLoop ==
    pc \in {"wait_for_ready", "sleep_ready", "wait_for_completion",
            "sleep_completion"}

\* C19, in every state of a wait and after it: no more polls and no more sleeps
\* than max_retries were made; with max_retries = 0 no poll can be made and the
\* wait ends with TimeoutError.
C19_WithinAttempts ==
    (op \in ReadyOps \cup CompletionOps /\ frame.self # "")
    => /\ polls <= frame.max_retries
       /\ sleeps <= frame.max_retries
       /\ frame.max_retries = 0
          => /\ polls = 0
             /\ sleeps = 0
             /\ ~ENABLED (\E r \in StatusResponses : PollReady(r))
             /\ ~ENABLED (\E r \in TrainingResponses : PollCompletion(r))
             /\ pc = "returned" => result = Raise(TimeoutError)

\* C19: both polling loops end, whatever the platform answers, after at most
\* max_retries polls and max_retries sleeps; with max_retries = 0 they raise
\* TimeoutError without polling.
C19_LoopsTerminate ==
    /\ []C19_WithinAttempts
    /\ InLoop ~> ~InLoop

\* C19 witness: _wait_for_completion(0) has ended with TimeoutError and
\* without a poll
C19_Witness ==
    /\ pc = "returned"
    /\ op = "_wait_for_completion"
    /\ frame.max_retries = 0
    /\ polls = 0
    /\ sent = <<>>
    /\ result = Raise(TimeoutError)

\* C20, in every step: status() and output() leave every controller and the
\* registry as they were; a controller's api_endpoint goes from unset to set
\* only in the step in which a wait on that controller returns; a chat() on a
\* controller whose api_endpoint is unset raises NotReadyError and sends
\* nothing.
C20_ReadOnlyStep ==
    /\ (pc = "idle" /\ op' \in {"status", "output"})
       => /\ inference' = inference
          /\ resources_to_cleanup' = resources_to_cleanup
    /\ \A c \in DOMAIN inference \cap DOMAIN inference' :
          (inference[c].api_endpoint = None /\ inference'[c].api_endpoint # None)
          => /\ op' \in ReadyOps
             /\ pc = "wait_for_ready"
             /\ pc' = "returned"
             /\ result'.kind = "return"
             /\ frame'.self = c
    /\ (pc = "idle" /\ op' = "chat" /\ inference["user"].api_endpoint = None)
       => (result' = Raise(NotReadyError) /\ sent' = <<>>)

\* C20: status() and output() are read-only on the controller and the
\* registry, so after output() has returned the chat URL of a running service
\* chat() still fails with NotReadyError until a wait on the controller has
\* returned successfully.
C20_StatusAndOutputReadOnly == [][C20_ReadOnlyStep]_vars

\* C20 witness: output() has returned the chat URL of the running service
\* while the controller's api_endpoint is still unset
C20_Witness ==
    /\ pc = "returned"
    /\ op = "output"
    /\ Service.service_name = "s1"
    /\ Service.api_endpoint = None
    /\ result = Return([chat_url |-> "u1"])
    /\ "s1" \in resources_to_cleanup.inference_services

====
